---- MODULE Spec2Model ----
(***************************************************************************)
(* Model of the MCP text-tool servers of this repository:                  *)
(*   "retrying" : src/server.js lines 1-510 (single-interval rate limiter, *)
(*                retry loop with exponential backoff, notices as text)    *)
(*   "readme"   : src/README.md lines 393-760 (same gateway and handler,   *)
(*                sliding-window RateLimiter class)                        *)
(*   "simple"   : src/server.js lines 511-676 (no limiter, no retry)       *)
(*   "basic"    : src/unnamed/part_002 (no limiter, no retry)              *)
(*                                                                         *)
(* JavaScript strings are sequences of tokens; a token is an indivisible   *)
(* piece of text, so String.includes(t) is membership of the token t.      *)
(* A JavaScript value is a record [t |-> type, v |-> tokens].              *)
(* Every tool invocation is one cooperative task on the single-threaded    *)
(* event loop: an action is the code that runs between two awaits.         *)
(***************************************************************************)
EXTENDS Integers, Sequences, FiniteSets, TLC

VARIABLES
  variant,        \* which server is running
  maxRequests,    \* this.maxRequests of the RateLimiter of the README server
  maxRetries,     \* const maxRetries = retries of the callGeminiAPI calls
  now,            \* Date.now()
  lastCallTime,   \* rateLimiter.lastCallTime of the retrying server
  requests,       \* RateLimiter.requests of the README server
  task,           \* per invocation: its position and its local variables
  admitLog,       \* history: the returns of checkRateLimit()
  httpLog,        \* history: the calls of fetch()
  invoked,        \* number of tools/call requests received so far
  process,        \* the Node process: its state, exit code and environment
  listed          \* the answer to the last tools/list request

\* what is fixed when the server starts
config == <<variant, maxRequests, maxRetries>>

vars == <<config, now, lastCallTime, requests, task, admitLog, httpLog,
          invoked, process, listed>>

----------------------------------------------------------------------------
(* Bounds of the model *)

MaxInvocations == 2    \* tools/call requests a server receives in a run
ReadmeInvocations == 3 \* the same for the README server
NumCallers == 3        \* concurrent tasks calling checkRateLimit() directly
MaxAdmits == 5         \* admissions recorded in a run of the limiter alone
CallHorizon == 30000   \* time after StartTime of the last call, fair limiter
LiveHorizon == 250000  \* time after StartTime at which its clock stops
ZeroHorizon == 3       \* the same for the limiter constructed with any N
MaxK == 4              \* largest retries passed to callGeminiAPI
BackoffHorizon == 8000 \* time after StartTime at which that gateway stops
StartTime == 1000      \* Date.now() when the first request arrives
PairHorizon == 3300    \* the same for two concurrent invocations
ServerHorizon == 3300  \* time after StartTime at which the server clock stops
IntervalHorizon == 240 \* the same for the single-interval limiter alone
WindowHorizon == 130000 \* the same for the sliding-window limiter alone
ReadmeHorizon == 66000 \* the same for the README server
SmallStep == 40        \* a short time between two events
BigStep == 1000        \* a long time between two events
WindowStep == 30000    \* time between two events, sliding-window limiter alone
LimiterN == 2          \* N of new RateLimiter(N, W) in the runs of the model

\* The server specifications follow the invocations one at a time; the
\* limiter specifications run NumCallers tasks concurrently.
Calls == {1}
Callers == 1..NumCallers

----------------------------------------------------------------------------
(* Program constants *)

minInterval == 100     \* rateLimiter.minInterval
windowMs == 60000      \* W of new RateLimiter(15, 60000)
DefaultRetries == 3    \* default of the parameter retries
BackoffBase == 1000    \* the factor in Math.pow(2, attempt - 1) * 1000

----------------------------------------------------------------------------
(* JavaScript values and strings *)

Str(s) == [t |-> "string", v |-> s]
Num(s) == [t |-> "number", v |-> s]
Undefined == [t |-> "undefined", v |-> <<>>]

\* String.prototype.includes for a token
Includes(s, tok) == \E k \in 1..Len(s) : s[k] = tok

\* `${value}` in a template literal
Template(val) == IF val.t = "undefined" THEN <<"undefined">> ELSE val.v

\* truthiness of a value: '' and undefined are falsy
Truthy(val) == val.t # "undefined" /\ val.v # <<>>

Min(S) == CHOOSE x \in S : \A y \in S : x <= y

\* the number Infinity: a value no time or duration of the model reaches
Infinity == 999999999

\* Math.min(...array): Infinity for an empty array
MathMin(a) == IF a = <<>> THEN Infinity ELSE Min({a[k] : k \in 1..Len(a)})

\* x - y of JavaScript numbers, one of which may be Infinity
Minus(x, y) ==
  IF y = Infinity THEN 0 - Infinity
  ELSE IF x = Infinity THEN Infinity
  ELSE IF y = 0 - Infinity THEN Infinity
  ELSE x - y

\* delay(ms): the time after which setTimeout(resolve, ms) fires at the
\* earliest; Node sets a duration that is below 1 or above 2^31 - 1, such
\* as Infinity, to 1
TimerDelay(ms) == IF ms < 1 \/ ms = Infinity THEN 1 ELSE ms

RECURSIVE Pow2(_)
Pow2(n) == IF n <= 0 THEN 1 ELSE 2 * Pow2(n - 1)

----------------------------------------------------------------------------
(* The provider: what fetch() and the reading of the body can produce.     *)
(* kind "http": a response with a status, a status text, the body text     *)
(* (what response.text() and JSON.stringify(data) show besides the        *)
(* candidate text), the shape of the parsed body and the candidate text.   *)
(* kind "exception": fetch() rejects with an Error whose message is body.  *)

Shapes == {"none", "noParts", "noText", "full"}
  \* none:    {}                                      no candidates
  \* noParts: {candidates:[{content:{}}]}              no parts
  \* noText:  {candidates:[{content:{parts:[{}]}}]}    no text
  \* full:    {candidates:[{content:{parts:[{text:X}]}}]}

Texts == {Str(<<>>), Str(<<"X">>)}

HttpResponse(st, b, sh, tx) ==
  [kind |-> "http", status |-> st, statusText |-> <<"st">>, body |-> b,
   shape |-> sh, text |-> tx]

ErrorResponses ==
  {HttpResponse(st, <<>>, "none", Undefined) : st \in {400, 429, 503}}
  \cup {HttpResponse(500, <<"503">>, "none", Undefined)}

OkResponses ==
  {HttpResponse(200, <<>>, "full", tx) : tx \in Texts}
  \cup {HttpResponse(200, <<>>, sh, Undefined) : sh \in Shapes \ {"full"}}
  \cup {HttpResponse(200, <<"429">>, "none", Undefined)}

\* fetch() rejects with a FetchError whose message is m
Exception(m) ==
  [kind |-> "exception", status |-> 0, statusText |-> <<>>, body |-> m,
   shape |-> "none", text |-> Undefined]

\* the last one: the connection to an address such as
\* 2a00:1450:4005:503::200a is refused
Exceptions ==
  {Exception(<<"request failed, reason: ", c>>) :
     c \in {"ECONNRESET", "ETIMEDOUT", "ENOTFOUND"}}
  \cup {Exception(<<"request failed, reason: ", "connect ECONNREFUSED ",
                    "2a00:1450:4005:", "503", "::200a:443">>)}

Responses == ErrorResponses \cup OkResponses \cup Exceptions

\* response.ok
Ok(r) == r.status >= 200 /\ r.status <= 299

\* a 2xx answer that carries the candidate text "X"
WellFormedText(r) ==
  r.kind = "http" /\ Ok(r) /\ r.shape = "full" /\ r.text.v # <<>>

\* JSON.stringify(data)
Stringify(r) == <<r.shape>> \o r.body

----------------------------------------------------------------------------
(* Error objects: the message and the attempt that created the object *)

Err(m, a) == [msg |-> m, at |-> a]
NoError == [msg |-> <<>>, at |-> 0]

----------------------------------------------------------------------------
(* Rate limiters *)

\* rateLimiter.checkRateLimit() of the retrying server, up to its await or
\* its return.  resumed: the task is continuing after `await delay(waitTime)`.
IntervalCheckRateLimit(resumed) ==
  LET timeSinceLastCall == now - lastCallTime IN
  IF ~resumed /\ timeSinceLastCall < minInterval
  THEN [admit |-> FALSE, wait |-> minInterval - timeSinceLastCall,
        lct |-> lastCallTime, reqs |-> requests]
  ELSE [admit |-> TRUE, wait |-> 0, lct |-> now, reqs |-> requests]

\* this.requests.filter(timestamp => now - timestamp < this.windowMs)
Prune(rs) == SelectSeq(rs, LAMBDA timestamp : now - timestamp < windowMs)

\* a limiter that counts the requests of the window and keeps all of them
WindowCheckRateLimitKeepsAll ==
  LET pruned == Prune(requests) IN
  IF Len(pruned) >= maxRequests
  THEN LET oldestRequest == MathMin(pruned) IN
       [admit |-> FALSE,
        wait |-> Minus(windowMs, Minus(now, oldestRequest)),
        lct |-> lastCallTime, reqs |-> requests]
  ELSE [admit |-> TRUE, wait |-> 0, lct |-> lastCallTime,
        reqs |-> Append(requests, now)]

\* a limiter that lets a request in while the window already holds N
WindowCheckRateLimitOffByOne ==
  LET pruned == Prune(requests) IN
  IF Len(pruned) > maxRequests
  THEN LET oldestRequest == MathMin(pruned) IN
       [admit |-> FALSE,
        wait |-> Minus(windowMs, Minus(now, oldestRequest)),
        lct |-> lastCallTime, reqs |-> pruned]
  ELSE [admit |-> TRUE, wait |-> 0, lct |-> lastCallTime,
        reqs |-> Append(pruned, now)]

\* a limiter that waits a whole window when the window is full
WindowCheckRateLimitFullWait ==
  LET pruned == Prune(requests) IN
  IF Len(pruned) >= maxRequests
  THEN [admit |-> FALSE, wait |-> windowMs,
        lct |-> lastCallTime, reqs |-> pruned]
  ELSE [admit |-> TRUE, wait |-> 0, lct |-> lastCallTime,
        reqs |-> Append(pruned, now)]

\* RateLimiter.checkRateLimit() of the README server, up to its await or its
\* return; after the await the method calls itself, so a resumed task runs
\* the same code again.
WindowCheckRateLimit ==
  LET pruned == Prune(requests) IN
  IF Len(pruned) >= maxRequests
  THEN LET oldestRequest == MathMin(pruned) IN
       [admit |-> FALSE,
        wait |-> Minus(windowMs, Minus(now, oldestRequest)),
        lct |-> lastCallTime, reqs |-> pruned]
  ELSE [admit |-> TRUE, wait |-> 0, lct |-> lastCallTime,
        reqs |-> Append(pruned, now)]

HasLimiter(v) == v \in {"retrying", "readme"}

\* await rateLimiter.checkRateLimit() as the running server has it
CheckRateLimit(resumed) ==
  CASE variant = "retrying" -> IntervalCheckRateLimit(resumed)
    [] variant = "readme" -> WindowCheckRateLimit
    [] OTHER -> [admit |-> TRUE, wait |-> 0, lct |-> lastCallTime,
                 reqs |-> requests]

----------------------------------------------------------------------------
(* callGeminiAPI *)

\* the Error built from a response that is not ok
HttpErrorMessage(v, r) ==
  IF v \in {"retrying", "readme"}
  THEN <<"Gemini API error: ", ToString(r.status), " ">> \o r.statusText
         \o (IF r.body # <<>> THEN <<" - ">> \o r.body ELSE <<>>)
  ELSE <<"Gemini API error: ", ToString(r.status), " ">> \o r.statusText

\* an extraction without the `|| fallback` of the simple server
ExtractTextNoFallback(v, r) ==
  CASE v \in {"retrying", "readme"} ->
         IF r.shape \in {"noText", "full"}
         THEN [k |-> "return", val |-> r.text, msg |-> <<>>]
         ELSE [k |-> "throw", val |-> Undefined,
               msg |-> <<"Unexpected response format from Gemini API: ">>
                         \o Stringify(r)]
    [] v = "basic" ->
         CASE r.shape = "none" ->
                [k |-> "throw", val |-> Undefined,
                 msg |-> <<"Unexpected response format from Gemini API">>]
           [] r.shape = "noParts" ->
                [k |-> "throw", val |-> Undefined,
                 msg |-> <<"Cannot read properties of undefined">>]
           [] OTHER -> [k |-> "return", val |-> r.text, msg |-> <<>>]
    [] OTHER -> [k |-> "return", val |-> r.text, msg |-> <<>>]

\* the text taken from the parsed body of an ok response
ExtractText(v, r) ==
  CASE v \in {"retrying", "readme"} ->
         IF r.shape \in {"noText", "full"}
         THEN [k |-> "return", val |-> r.text, msg |-> <<>>]
         ELSE [k |-> "throw", val |-> Undefined,
               msg |-> <<"Unexpected response format from Gemini API: ">>
                         \o Stringify(r)]
    [] v = "basic" ->
         CASE r.shape = "none" ->
                [k |-> "throw", val |-> Undefined,
                 msg |-> <<"Unexpected response format from Gemini API">>]
           [] r.shape = "noParts" ->
                [k |-> "throw", val |-> Undefined,
                 msg |-> <<"Cannot read properties of undefined">>]
           [] OTHER -> [k |-> "return", val |-> r.text, msg |-> <<>>]
    [] OTHER ->
         [k |-> "return",
          val |-> IF Truthy(r.text) THEN r.text
                  ELSE Str(<<"(unable to get a response)">>),
          msg |-> <<>>]

\* the test of the catch block for "do not retry"
Retryable(m) ==
  \/ Includes(m, "503")
  \/ Includes(m, "429")
  \/ Includes(m, "ECONNRESET")
  \/ Includes(m, "ETIMEDOUT")

\* a backoff that grows by one second per attempt: attempt * 1000
WaitTimeLinear(a) == a * BackoffBase

\* a backoff that starts at 2 seconds: Math.pow(2, attempt) * 1000
WaitTimeFromTwo(a) == Pow2(a) * BackoffBase

\* Math.pow(2, attempt - 1) * 1000
WaitTime(a) == Pow2(a - 1) * BackoffBase

\* a try block that also sleeps and continues after a 503 or 429 answer to
\* the last attempt
TryBlockRetriesLast(v, r, a) ==
  IF r.kind = "exception"
  THEN [k |-> "throw", val |-> Undefined, err |-> Err(r.body, a)]
  ELSE IF ~Ok(r)
  THEN LET error == Err(HttpErrorMessage(v, r), a) IN
       IF r.status \in {503, 429} /\ a <= maxRetries
       THEN [k |-> "continue", val |-> Undefined, err |-> error]
       ELSE [k |-> "throw", val |-> Undefined, err |-> error]
  ELSE LET x == ExtractText(v, r) IN
       IF x.k = "return"
       THEN [k |-> "return", val |-> x.val, err |-> NoError]
       ELSE [k |-> "throw", val |-> Undefined, err |-> Err(x.msg, a)]

\* the try block of one iteration of the retry loop
TryBlock(v, r, a) ==
  IF r.kind = "exception"
  THEN [k |-> "throw", val |-> Undefined, err |-> Err(r.body, a)]
  ELSE IF ~Ok(r)
  THEN LET error == Err(HttpErrorMessage(v, r), a) IN
       IF r.status \in {503, 429} /\ a < maxRetries
       THEN [k |-> "continue", val |-> Undefined, err |-> error]
       ELSE [k |-> "throw", val |-> Undefined, err |-> error]
  ELSE LET x == ExtractText(v, r) IN
       IF x.k = "return"
       THEN [k |-> "return", val |-> x.val, err |-> NoError]
       ELSE [k |-> "throw", val |-> Undefined, err |-> Err(x.msg, a)]

\* a catch block that also sleeps after the last attempt
CatchBlockSleepsLast(error, a) ==
  IF ~Retryable(error.msg) THEN "rethrow"
  ELSE IF a <= maxRetries THEN "delay"
  ELSE "exhausted"

\* the catch block of one iteration of the retry loop
CatchBlock(error, a) ==
  IF ~Retryable(error.msg) THEN "rethrow"
  ELSE IF a < maxRetries THEN "delay"
  ELSE "exhausted"

\* one iteration of the retry loop on the provider's answer r to attempt a:
\* return a value, sleep before the next iteration, or throw
RetryIteration(v, r, a) ==
  LET t == TryBlock(v, r, a) IN
  CASE t.k = "return" ->
         [k |-> "return", val |-> t.val, err |-> NoError, wait |-> 0]
    [] t.k = "continue" ->
         [k |-> "backoff", val |-> Undefined, err |-> t.err,
          wait |-> WaitTime(a)]
    [] OTHER ->
         IF CatchBlock(t.err, a) = "delay"
         THEN [k |-> "backoff", val |-> Undefined, err |-> t.err,
               wait |-> WaitTime(a)]
         ELSE [k |-> "throw", val |-> Undefined, err |-> t.err, wait |-> 0]

\* callGeminiAPI of the servers without a retry loop
SingleCall(v, r) ==
  IF r.kind = "exception"
  THEN [k |-> "throw", val |-> Undefined, err |-> Err(r.body, 1), wait |-> 0]
  ELSE IF ~Ok(r)
  THEN [k |-> "throw", val |-> Undefined,
        err |-> Err(HttpErrorMessage(v, r), 1), wait |-> 0]
  ELSE LET x == ExtractText(v, r) IN
       IF x.k = "return"
       THEN [k |-> "return", val |-> x.val, err |-> NoError, wait |-> 0]
       ELSE [k |-> "throw", val |-> Undefined, err |-> Err(x.msg, 1),
             wait |-> 0]

\* what callGeminiAPI does with the provider's answer r to attempt a
GatewayStep(v, r, a) ==
  IF v \in {"retrying", "readme"} THEN RetryIteration(v, r, a)
  ELSE SingleCall(v, r)

----------------------------------------------------------------------------
(* tools/call handler *)

S == Str(<<"s">>)
N42 == Num(<<"42">>)
NoArgs == [prompt |-> Undefined, text |-> Undefined,
           target_language |-> Undefined, max_length |-> Undefined]

ToolNames == {"generate_text", "translate_text", "summarize_text"}

\* request.params of the tools/call requests of the model
Requests ==
  {[name |-> "generate_text", args |-> [NoArgs EXCEPT !.prompt = p]] :
     p \in {S, N42}}
  \cup {[name |-> "translate_text",
          args |-> [NoArgs EXCEPT !.text = S, !.target_language = b]] :
          b \in {S, N42}}
  \cup {[name |-> "summarize_text",
          args |-> [NoArgs EXCEPT !.text = S, !.max_length = m]] :
          m \in {Undefined, S}}
  \cup {[name |-> "summarize_text",
          args |-> [NoArgs EXCEPT !.text = N42, !.max_length = N42]]}
  \cup {[name |-> "nonexistent_tool", args |-> NoArgs]}

\* a parameter with a default value: `name = d` takes d for undefined
Default(arg, d) == IF arg.t = "undefined" THEN d ELSE arg

\* the first argument of the handler's call of callGeminiAPI
HandlerPrompt(rq) ==
  CASE rq.name = "translate_text" ->
         Str(<<"Translate into ">> \o Template(rq.args.target_language)
               \o <<":\n">> \o Template(rq.args.text))
    [] rq.name = "summarize_text" ->
         Str(<<"Summarize within ">>
               \o Template(Default(rq.args.max_length, Num(<<"100">>)))
               \o <<":\n">> \o Template(rq.args.text))
    [] OTHER -> rq.args.prompt

\* its second argument: generate_text passes none
HandlerInstruction(rq) ==
  CASE rq.name = "translate_text" -> Str(<<"You are a translator.">>)
    [] rq.name = "summarize_text" -> Str(<<"You are a summarizer.">>)
    [] OTHER -> Undefined

\* a body whose text part joins the two with a single newline
RequestBodyOneNewline(prompt, systemInstruction) ==
  LET s == Default(systemInstruction, Str(<<>>)) IN
  [contents |->
     <<[parts |->
          <<[text |-> IF Truthy(s)
                      THEN Str(Template(s) \o <<"\n">> \o Template(prompt))
                      ELSE prompt]>>]>>]

\* requestBody of callGeminiAPI(prompt, systemInstruction = '')
RequestBody(prompt, systemInstruction) ==
  LET s == Default(systemInstruction, Str(<<>>)) IN
  [contents |->
     <<[parts |->
          <<[text |-> IF Truthy(s)
                      THEN Str(Template(s) \o <<"\n\n">> \o Template(prompt))
                      ELSE prompt]>>]>>]

\* new McpError(code, message).message, as the SDK composes it
McpMessage(code, m) == <<"MCP error ", code, ": ">> \o m

\* a thrown object: an McpError (mcp) with its code, or a plain Error
Thrown(mcp, code, m) == [mcp |-> mcp, code |-> code, msg |-> m]
McpError(code, m) == Thrown(TRUE, code, McpMessage(code, m))
NoThrow == Thrown(FALSE, "", <<>>)

\* what the client receives: a result with one text block, or a protocol
\* error with the code and the message of the McpError the handler threw
Result(val) == [kind |-> "result", code |-> "", text |-> val]
ProtocolError(e) == [kind |-> "error", code |-> e.code, text |-> Str(e.msg)]
NoResponse == [kind |-> "none", code |-> "", text |-> Undefined]

\* the switch on the tool name up to the call of callGeminiAPI: the McpError
\* thrown by the parameter checks and by the default case, if any
Validate(rq) ==
  CASE rq.name = "generate_text" ->
         IF rq.args.prompt.t # "string"
         THEN McpError("InvalidParams", <<"Prompt must be a string">>)
         ELSE NoThrow
    [] rq.name = "translate_text" ->
         IF rq.args.text.t # "string" \/ rq.args.target_language.t # "string"
         THEN McpError("InvalidParams",
                       <<"Text and target language must be strings">>)
         ELSE NoThrow
    [] rq.name = "summarize_text" ->
         IF rq.args.text.t # "string"
         THEN McpError("InvalidParams", <<"Text must be a string">>)
         ELSE NoThrow
    [] OTHER ->
         McpError("MethodNotFound", <<"Unknown tool: ", rq.name>>)

\* the catch block around the switch: the object it throws for the caught e
OuterCatch(v, e) ==
  IF v = "simple" /\ e.mcp THEN e
  ELSE McpError("InternalError", <<"Tool execution failed: ">> \o e.msg)

ResultPrefix(name) ==
  CASE name = "generate_text" -> "Generated text:\n"
    [] name = "translate_text" -> "Translation result:\n"
    [] OTHER -> "Summary result:\n"

Notice503(name) ==
  CASE name = "generate_text" ->
         "Gemini AI service temporarily unavailable, please try again later"
    [] name = "translate_text" ->
         "Translation service temporarily unavailable, please try again later"
    [] OTHER ->
         "Summary service temporarily unavailable, please try again later"

Notice429 == "API rate limit exceeded, please try again later"

FailurePrefix(name) ==
  CASE name = "generate_text" -> "API call failed: "
    [] name = "translate_text" -> "Translation failed: "
    [] OTHER -> "Summary failed: "

\* the catch block around callGeminiAPI in each tool of the retrying server
ErrorMessage(name, m) ==
  IF Includes(m, "503") THEN <<Notice503(name)>>
  ELSE IF Includes(m, "429") THEN <<Notice429>>
  ELSE <<FailurePrefix(name)>> \o m

\* a handler without the try block around callGeminiAPI in each tool: what
\* callGeminiAPI throws reaches the catch block around the switch
AnswerWithoutNotice(v, rq, out) ==
  IF out.k = "return"
  THEN IF v = "simple" THEN Result(out.val)
       ELSE Result(Str(<<ResultPrefix(rq.name)>> \o Template(out.val)))
  ELSE ProtocolError(OuterCatch(v, Thrown(FALSE, "", out.err.msg)))

\* a handler whose await of callGeminiAPI is outside every try block: what
\* callGeminiAPI throws is answered by nobody
AnswerOutsideTry(v, rq, out) ==
  IF out.k = "return"
  THEN IF v = "simple" THEN Result(out.val)
       ELSE Result(Str(<<ResultPrefix(rq.name)>> \o Template(out.val)))
  ELSE NoResponse

\* the answer of the handler once callGeminiAPI has returned or thrown (out)
Answer(v, rq, out) ==
  CASE v \in {"retrying", "readme"} ->
         IF out.k = "return"
         THEN Result(Str(<<ResultPrefix(rq.name)>> \o Template(out.val)))
         ELSE Result(Str(ErrorMessage(rq.name, out.err.msg)))
    [] v = "basic" ->
         IF out.k = "return"
         THEN Result(Str(<<ResultPrefix(rq.name)>> \o Template(out.val)))
         ELSE ProtocolError(OuterCatch(v, Thrown(FALSE, "", out.err.msg)))
    [] OTHER ->
         IF out.k = "return" THEN Result(out.val)
         ELSE ProtocolError(OuterCatch(v, Thrown(FALSE, "", out.err.msg)))

----------------------------------------------------------------------------
(* tools/list handler *)

Tool(n, props, req) == [name |-> n, properties |-> props, required |-> req]

\* a handler whose list has lost its last tool
ListToolsHandlerTwoTools ==
  [tools |->
     <<Tool("generate_text", [prompt |-> "string"], {"prompt"}),
       Tool("translate_text",
            [text |-> "string", target_language |-> "string"],
            {"text", "target_language"})>>]

\* the object the ListToolsRequestSchema handler returns: a literal
ListToolsHandler ==
  [tools |->
     <<Tool("generate_text", [prompt |-> "string"], {"prompt"}),
       Tool("translate_text",
            [text |-> "string", target_language |-> "string"],
            {"text", "target_language"}),
       Tool("summarize_text", [text |-> "string", max_length |-> "number"],
            {"text"})>>]

\* what the host has of the last tools/list answer: the tools, and how many
\* tools/call requests the server had received when it answered
Listing(result, n) == [tools |-> result.tools, after |-> n]
NoList == [tools |-> <<>>, after |-> 0]

----------------------------------------------------------------------------
(* The process *)

\* process.env.GEMINI_API_KEY of a configured server
ApiKey == Str(<<"key">>)

\* the module is being evaluated, with GEMINI_API_KEY = key in process.env
Loading(key) == [state |-> "loading", code |-> 0, key |-> key]
\* main() has connected the transport
Started(key) == [state |-> "started", code |-> 0, key |-> key]
\* process.exit(code)
Exited(key, code) == [state |-> "exited", code |-> code, key |-> key]

----------------------------------------------------------------------------
(* State after the module of a server has been loaded *)

NoBody == [contents |-> <<>>]
NoRequest == [name |-> "", args |-> NoArgs]
NoOutcome == [k |-> "none", val |-> Undefined, err |-> NoError, wait |-> 0]

\* a task that has not started:
\*   pc         position: idle, rl_wait, inflight, backoff, done
\*   req        request.params
\*   attempt    loop variable of callGeminiAPI
\*   lastError  local lastError of callGeminiAPI
\*   wakeAt     deadline of the pending setTimeout
\*   delays     the waitTimes of the backoff delays, in order
\*   nHttp      fetch() calls made
\*   nAdmit     returns of checkRateLimit()
\*   apiOutcome what callGeminiAPI returned or threw
\*   response   what the handler answered
\*   inv        history: number of the invocation, in order of arrival
\*   answers    history: the provider's answers to the fetch() calls
\*   suspended  history: suspensions in the pending checkRateLimit()
\*   called     history: Date.now() at the call of the pending checkRateLimit()
\*   cancelled  the host has cancelled the request (its AbortSignal, which
\*              the SDK hands to the handler as extra.signal, is aborted)
\*   prompt, systemInstruction  the arguments of callGeminiAPI
\*   body       requestBody of the last fetch()
Fresh ==
  [pc |-> "idle", req |-> NoRequest, prompt |-> Undefined,
   systemInstruction |-> Undefined, body |-> NoBody, attempt |-> 0, lastError |-> NoError,
   wakeAt |-> 0, delays |-> <<>>, nHttp |-> 0, nAdmit |-> 0,
   apiOutcome |-> NoOutcome, response |-> NoResponse, inv |-> 0,
   answers |-> <<>>, suspended |-> 0, called |-> 0,
   cancelled |-> FALSE]

\* new RateLimiter(n, w): the constructor stores its arguments as they are
RateLimiter(n, w) == [maxRequests |-> n, windowMs |-> w, requests |-> <<>>]

\* server v with the limiter RateLimiter(n, windowMs), whose calls of
\* callGeminiAPI pass k as retries
InitWith(v, tasks, n, k) ==
  /\ variant = v
  /\ maxRequests = RateLimiter(n, windowMs).maxRequests
  /\ maxRetries = k
  /\ now = StartTime
  /\ lastCallTime = 0
  /\ requests = RateLimiter(n, windowMs).requests
  /\ task = [i \in tasks |-> Fresh]
  /\ admitLog = <<>>
  /\ httpLog = <<>>
  /\ invoked = 0
  /\ process = Started(ApiKey)
  /\ listed = NoList

\* the handlers call callGeminiAPI(prompt[, systemInstruction]): retries has
\* its default
InitOf(v, tasks) == InitWith(v, tasks, LimiterN, DefaultRetries)

----------------------------------------------------------------------------
(* Steps of a tool invocation i *)

Admission(tk) == [inv |-> tk.inv, t |-> now, waits |-> tk.suspended]
HttpRequest(tk, a) ==
  [inv |-> tk.inv, t |-> now, attempt |-> a, cancelled |-> tk.cancelled]

\* callGeminiAPI ends with out and the handler that called it, if any,
\* answers
Finished(tk, out) ==
  [tk EXCEPT !.pc = "done", !.apiOutcome = out,
             !.response = IF tk.req = NoRequest THEN NoResponse
                          ELSE Answer(variant, tk.req, out)]

\* iteration a of the retry loop begins: when the loop condition holds the
\* task reaches `await fetch(...)`, else `throw lastError` ends the call.
\* The servers without a retry loop reach their only fetch().
Iterate(i, tk, a) ==
  IF HasLimiter(variant) => a <= maxRetries
  THEN /\ task' = [task EXCEPT ![i] =
                     [tk EXCEPT !.pc = "inflight", !.attempt = a,
                                !.nHttp = @ + 1,
                                !.body = RequestBody(tk.prompt,
                                                     tk.systemInstruction)]]
       /\ httpLog' = Append(httpLog, HttpRequest(tk, a))
  ELSE /\ task' = [task EXCEPT ![i] =
                     Finished([tk EXCEPT !.attempt = a],
                              [k |-> "throw", val |-> Undefined,
                               err |-> tk.lastError, wait |-> 0])]
       /\ UNCHANGED httpLog

\* checkRateLimit() has returned to a caller that does nothing else
Returned(i, tk) ==
  /\ task' = [task EXCEPT ![i] = [tk EXCEPT !.pc = "idle"]]
  /\ UNCHANGED httpLog

\* after `await rateLimiter.checkRateLimit()`: callGeminiAPI goes on to the
\* first iteration of its loop; a task of the limiter alone is finished
Proceed(i, tk, alone) ==
  IF alone THEN Returned(i, tk) ELSE Iterate(i, tk, 1)

\* `await rateLimiter.checkRateLimit()` of task i: the task is suspended, or
\* it is admitted and goes on
PassLimiter(i, tk, resumed, alone) ==
  LET rl == CheckRateLimit(resumed) IN
  /\ lastCallTime' = rl.lct
  /\ requests' = rl.reqs
  /\ IF rl.admit
     THEN IF HasLimiter(variant)
          THEN /\ admitLog' = Append(admitLog, Admission(tk))
               /\ Proceed(i, [tk EXCEPT !.nAdmit = @ + 1, !.wakeAt = 0,
                                         !.suspended = 0, !.called = 0],
                          alone)
          ELSE /\ UNCHANGED admitLog
               /\ Proceed(i, tk, alone)
     ELSE /\ task' = [task EXCEPT ![i] =
                        [tk EXCEPT !.pc = "rl_wait",
                                   !.wakeAt = now + TimerDelay(rl.wait),
                                   !.suspended = @ + 1,
                                   !.called = IF resumed THEN @ ELSE now]]
          /\ UNCHANGED <<admitLog, httpLog>>

\* a tools/call request rq arrives and the handler runs up to its first
\* await, or to its end when the switch rejects the request
InvokeWithin(limit, i, rq) ==
  /\ task[i].pc \in {"idle", "done"}
  /\ invoked < limit
  /\ invoked' = invoked + 1
  /\ UNCHANGED <<config, process, listed, now>>
  /\ LET tk == [Fresh EXCEPT !.req = rq, !.inv = invoked + 1,
                             !.prompt = HandlerPrompt(rq),
                             !.systemInstruction = HandlerInstruction(rq)] IN
     IF Validate(rq) # NoThrow
     THEN /\ task' = [task EXCEPT ![i] =
                        [tk EXCEPT !.pc = "done",
                           !.response = ProtocolError(
                                          OuterCatch(variant, Validate(rq)))]]
          /\ UNCHANGED <<lastCallTime, requests, admitLog, httpLog>>
     ELSE PassLimiter(i, tk, FALSE, FALSE)

Invoke(i, rq) == InvokeWithin(MaxInvocations, i, rq)

\* callGeminiAPI(p, s) is called as a function, up to its first await
CallGeminiAPI(i, p, s) ==
  /\ task[i].pc \in {"idle", "done"}
  /\ invoked < MaxInvocations
  /\ invoked' = invoked + 1
  /\ UNCHANGED <<config, process, listed, now>>
  /\ PassLimiter(i, [Fresh EXCEPT !.inv = invoked + 1, !.prompt = p,
                                  !.systemInstruction = s],
                 FALSE, FALSE)

\* the timer of `await delay(waitTime)` in checkRateLimit() fires
RlWake(i) ==
  /\ task[i].pc = "rl_wait"
  /\ now >= task[i].wakeAt
  /\ PassLimiter(i, task[i], TRUE, FALSE)
  /\ UNCHANGED <<config, process, listed, now, invoked>>

\* an answer handled with an attempt counter that the invocations share
RespondSharedAttempt(i, r) ==
  /\ task[i].pc = "inflight"
  /\ LET attempt == CHOOSE a \in {task[j].attempt : j \in DOMAIN task} :
                       \A j \in DOMAIN task : task[j].attempt <= a
         out == GatewayStep(variant, r, attempt)
         tk == [task[i] EXCEPT !.answers = Append(@, r)]
     IN
     IF out.k = "backoff"
     THEN task' = [task EXCEPT ![i] =
                     [tk EXCEPT !.pc = "backoff", !.lastError = out.err,
                                !.wakeAt = now + TimerDelay(out.wait),
                                !.delays = Append(@, out.wait)]]
     ELSE task' = [task EXCEPT ![i] =
                     Finished([tk EXCEPT !.lastError =
                                 IF out.k = "throw" THEN out.err ELSE @],
                              out)]
  /\ UNCHANGED <<config, process, listed, now, lastCallTime, requests, admitLog, httpLog,
                 invoked>>

\* the provider's answer r to the pending fetch() of task i arrives and the
\* task runs up to its next await or to the end of the handler
Respond(i, r) ==
  /\ task[i].pc = "inflight"
  /\ LET out == GatewayStep(variant, r, task[i].attempt)
         tk == [task[i] EXCEPT !.answers = Append(@, r)]
     IN
     IF out.k = "backoff"
     THEN task' = [task EXCEPT ![i] =
                     [tk EXCEPT !.pc = "backoff", !.lastError = out.err,
                                !.wakeAt = now + TimerDelay(out.wait),
                                !.delays = Append(@, out.wait)]]
     ELSE task' = [task EXCEPT ![i] =
                     Finished([tk EXCEPT !.lastError =
                                 IF out.k = "throw" THEN out.err ELSE @],
                              out)]
  /\ UNCHANGED <<config, process, listed, now, lastCallTime, requests, admitLog, httpLog,
                 invoked>>

\* the timer of a backoff delay fires: attempt++ and the next iteration
BackoffWake(i) ==
  /\ task[i].pc = "backoff"
  /\ now >= task[i].wakeAt
  /\ Iterate(i, [task[i] EXCEPT !.wakeAt = 0], task[i].attempt + 1)
  /\ UNCHANGED <<config, process, listed, now, lastCallTime, requests, admitLog, invoked>>

\* the host cancels the pending invocation i (notifications/cancelled): the
\* SDK aborts the signal of the request.  The handler is registered as
\* `async (request) => ...`: it does not take the signal, and neither
\* callGeminiAPI nor delay() nor fetch() is given one.
Cancel(i) ==
  /\ task[i].pc \in {"rl_wait", "inflight", "backoff"}
  /\ ~task[i].cancelled
  /\ task' = [task EXCEPT ![i].cancelled = TRUE]
  /\ UNCHANGED <<config, process, listed, now, lastCallTime, requests, admitLog, httpLog,
                 invoked>>

\* a tools/list request arrives and is answered
ListTools ==
  /\ listed' = Listing(ListToolsHandler, invoked)
  /\ UNCHANGED <<config, process, now, lastCallTime, requests, task,
                 admitLog, httpLog, invoked>>

\* a module that tests the key with `GEMINI_API_KEY === undefined`
LoadModuleUnsetOnly ==
  /\ process.state = "loading"
  /\ process' = IF process.key.t = "undefined" THEN Exited(process.key, 1)
                ELSE Started(process.key)
  /\ UNCHANGED <<config, listed, now, lastCallTime, requests, task,
                 admitLog, httpLog, invoked>>

\* the module is evaluated: `if (!GEMINI_API_KEY) { ...; process.exit(1) }`,
\* then the server and its handlers are set up and main() connects the
\* transport
LoadModule ==
  /\ process.state = "loading"
  /\ process' = IF ~Truthy(process.key) THEN Exited(process.key, 1)
                ELSE Started(process.key)
  /\ UNCHANGED <<config, listed, now, lastCallTime, requests, task,
                 admitLog, httpLog, invoked>>

\* time passes: to the deadline of a pending timer, or by one of steps
Tick(steps, horizon) ==
  /\ \E t \in {task[i].wakeAt :
                  i \in {j \in DOMAIN task :
                           task[j].pc \in {"rl_wait", "backoff"}}}
              \cup {now + d : d \in steps} :
       /\ t > now
       /\ t <= StartTime + horizon
       /\ now' = t
  /\ UNCHANGED <<config, process, listed, lastCallTime, requests, task, admitLog, httpLog,
                 invoked>>

\* time passes while the server has work left; short steps are taken only
\* while the interval of the limiter is open
Advance ==
  /\ \/ invoked < MaxInvocations
     \/ \E i \in DOMAIN task : task[i].pc \notin {"idle", "done"}
  /\ Tick(IF now - lastCallTime < minInterval
          THEN {SmallStep, BigStep} ELSE {BigStep}, ServerHorizon)

----------------------------------------------------------------------------
(* The retrying server of src/server.js *)

Init == InitOf("retrying", Calls)

Next ==
  \/ \E i \in Calls, rq \in Requests : Invoke(i, rq)
  \/ \E i \in Calls : RlWake(i)
  \/ \E i \in Calls, r \in Responses : Respond(i, r)
  \/ \E i \in Calls : BackoffWake(i)
  \/ Advance

Spec == Init /\ [][Next]_vars

\* the retrying server with a host that may cancel a pending invocation
NextCancel ==
  \/ Next
  \/ \E i \in Calls : Cancel(i)

SpecCancel == Init /\ [][NextCancel]_vars

----------------------------------------------------------------------------
(* callGeminiAPI of the retrying server called with retries = K, K >= 1:   *)
(* one invocation of generate_text whose call passes K                     *)

BackoffRequests ==
  {rq \in Requests : rq.name = "generate_text" /\ Validate(rq) = NoThrow}

BackoffResponses ==
  {r \in Responses :
     \/ r.kind = "exception" /\ Retryable(r.body)
     \/ r.status \in {429, 503}
     \/ WellFormedText(r)}

InvokeOnce(i, rq) == InvokeWithin(1, i, rq)

AdvanceBackoff ==
  /\ \E i \in DOMAIN task : task[i].pc \notin {"idle", "done"}
  /\ Tick({BigStep}, BackoffHorizon)

InitBackoff == \E k \in 1..MaxK : InitWith("retrying", Calls, LimiterN, k)

NextBackoff ==
  \/ \E i \in Calls, rq \in BackoffRequests : InvokeOnce(i, rq)
  \/ \E i \in Calls, r \in BackoffResponses : Respond(i, r)
  \/ \E i \in Calls : BackoffWake(i)
  \/ AdvanceBackoff

SpecBackoff == InitBackoff /\ [][NextBackoff]_vars

----------------------------------------------------------------------------
(* The server of src/README.md with the sliding-window RateLimiter *)

ReadmeRequests == {rq \in Requests : rq.name = "generate_text"}

ReadmeResponses ==
  {r \in Responses : /\ r.kind = "http"
                      /\ r.status \in {200, 503}
                      /\ r.shape = "full" => r.text = Str(<<"X">>)
                      /\ r.body = <<>>}

InvokeReadme(i, rq) == InvokeWithin(ReadmeInvocations, i, rq)

AdvanceReadme ==
  /\ \/ invoked < ReadmeInvocations
     \/ \E i \in DOMAIN task : task[i].pc \notin {"idle", "done"}
  /\ Tick({WindowStep}, ReadmeHorizon)

InitReadme == InitOf("readme", Calls)

NextReadme ==
  \/ \E i \in Calls, rq \in ReadmeRequests : InvokeReadme(i, rq)
  \/ \E i \in Calls : RlWake(i)
  \/ \E i \in Calls, r \in ReadmeResponses : Respond(i, r)
  \/ \E i \in Calls : BackoffWake(i)
  \/ AdvanceReadme

SpecReadme == InitReadme /\ [][NextReadme]_vars

----------------------------------------------------------------------------
(* The servers without limiter and retry loop: src/server.js lines 511-676 *)
(* and src/unnamed/part_002                                                *)

InitSimple == InitOf("simple", Calls)
InitBasic == InitOf("basic", Calls)

NextPlain ==
  \/ \E i \in Calls, rq \in Requests : Invoke(i, rq)
  \/ \E i \in Calls, r \in Responses : Respond(i, r)

SpecSimple == InitSimple /\ [][NextPlain]_vars
SpecBasic == InitBasic /\ [][NextPlain]_vars

----------------------------------------------------------------------------
(* The retrying server from the start of its process, with a host that     *)
(* also lists the tools                                                    *)

EnvKeys == {Undefined, Str(<<>>), ApiKey}

HostResponses ==
  {r \in Responses :
     \/ r.kind = "exception" /\ Includes(r.body, "ETIMEDOUT")
     \/ r.kind = "http" /\ r.status \in {400, 503} /\ r.body = <<>>
     \/ WellFormedText(r)}

InitStartup ==
  /\ \E key \in EnvKeys : process = Loading(key)
  /\ variant = "retrying"
  /\ maxRequests = LimiterN
  /\ maxRetries = DefaultRetries
  /\ now = StartTime
  /\ lastCallTime = 0
  /\ requests = <<>>
  /\ task = [i \in Calls |-> Fresh]
  /\ admitLog = <<>>
  /\ httpLog = <<>>
  /\ invoked = 0
  /\ listed = NoList

\* requests are handled once main() has connected the transport
Serve ==
  /\ process.state = "started"
  /\ \/ \E i \in Calls, rq \in Requests : Invoke(i, rq)
     \/ \E i \in Calls : RlWake(i)
     \/ \E i \in Calls, r \in HostResponses : Respond(i, r)
     \/ \E i \in Calls : BackoffWake(i)
     \/ ListTools

NextStartup ==
  \/ LoadModule
  \/ Serve
  \/ Advance

SpecStartup == InitStartup /\ [][NextStartup]_vars

----------------------------------------------------------------------------
(* Any one of the four servers *)

Variants == {"retrying", "readme", "simple", "basic"}

InitAny == \E v \in Variants : InitOf(v, Calls)

SpecAny == InitAny /\ [][Next]_vars

----------------------------------------------------------------------------
(* callGeminiAPI called with every prompt and preamble, in each server     *)

Prompts == {Str(<<>>), Str(<<"p">>)}
Preambles == {Undefined, Str(<<>>), Str(<<"s">>)}
InitBody == \E v \in Variants : InitOf(v, Calls)

NextBody ==
  \/ \E i \in Calls, p \in Prompts, s \in Preambles : CallGeminiAPI(i, p, s)
  \/ \E i \in Calls : RlWake(i)
  \/ \E i \in Calls, r \in HostResponses : Respond(i, r)
  \/ \E i \in Calls : BackoffWake(i)
  \/ Advance

SpecBody == InitBody /\ [][NextBody]_vars

----------------------------------------------------------------------------
(* The rate limiters alone: NumCallers concurrent tasks, each calling      *)
(* checkRateLimit() again and again                                        *)

\* task i calls checkRateLimit()
LimiterCall(i) ==
  /\ task[i].pc = "idle"
  /\ Len(admitLog) < MaxAdmits
  /\ PassLimiter(i, task[i], FALSE, TRUE)
  /\ UNCHANGED <<config, process, listed, now, invoked>>

\* the timer of `await delay(waitTime)` fires for task i
LimiterResume(i) ==
  /\ task[i].pc = "rl_wait"
  /\ now >= task[i].wakeAt
  /\ PassLimiter(i, task[i], TRUE, TRUE)
  /\ UNCHANGED <<config, process, listed, now, invoked>>

AdvanceInterval == Tick({SmallStep}, IntervalHorizon)
AdvanceWindow == Tick({WindowStep}, WindowHorizon)

InitInterval == InitOf("retrying", Callers)
InitWindow == InitOf("readme", Callers)

NextInterval ==
  \/ \E i \in Callers : LimiterCall(i)
  \/ \E i \in Callers : LimiterResume(i)
  \/ AdvanceInterval

NextWindow ==
  \/ \E i \in Callers : LimiterCall(i)
  \/ \E i \in Callers : LimiterResume(i)
  \/ AdvanceWindow

SpecInterval == InitInterval /\ [][NextInterval]_vars
SpecWindow == InitWindow /\ [][NextWindow]_vars

----------------------------------------------------------------------------
(* Two concurrent invocations of generate_text in the retrying server *)

Pair == {1, 2}
PairRequests ==
  {rq \in Requests : rq.name = "generate_text" /\ Validate(rq) = NoThrow}
PairResponses ==
  {r \in Responses :
     \/ r.kind = "http" /\ r.status \in {400, 503} /\ r.body = <<>>
     \/ WellFormedText(r)}

InitPair == InitOf("retrying", Pair)

AdvancePair ==
  /\ \E i \in Pair : task[i].pc \notin {"idle", "done"}
  /\ Tick({BigStep}, PairHorizon)

NextPair ==
  \/ \E i \in Pair, rq \in PairRequests : Invoke(i, rq)
  \/ \E i \in Pair : RlWake(i)
  \/ \E i \in Pair, r \in PairResponses : Respond(i, r)
  \/ \E i \in Pair : BackoffWake(i)
  \/ AdvancePair

SpecPair == InitPair /\ [][NextPair]_vars

----------------------------------------------------------------------------
(* The sliding-window limiter constructed with any N from 0 *)

InitAnyN ==
  \E n \in 0..LimiterN : InitWith("readme", Callers, n, DefaultRetries)

AdvanceAnyN == Tick({SmallStep}, ZeroHorizon)

NextAnyN ==
  \/ \E i \in Callers : LimiterCall(i)
  \/ \E i \in Callers : LimiterResume(i)
  \/ AdvanceAnyN

SpecAnyN == InitAnyN /\ [][NextAnyN]_vars

----------------------------------------------------------------------------
(* The sliding-window limiter with a finite set of calls, a clock that     *)
(* advances and timers that fire                                           *)

\* task i calls checkRateLimit(); no call is made after CallHorizon
LimiterCallEarly(i) ==
  /\ now <= StartTime + CallHorizon
  /\ LimiterCall(i)

\* time passes, and no timer is left waiting after it is due: the clock
\* stops at each deadline until the callback of the timer has run
AdvanceLive ==
  /\ \A i \in Callers : task[i].pc = "rl_wait" => now < task[i].wakeAt
  /\ Tick({WindowStep}, LiveHorizon)
  /\ \A i \in Callers : task[i].pc = "rl_wait" => now' <= task[i].wakeAt

NextWindowLive ==
  \/ \E i \in Callers : LimiterCallEarly(i)
  \/ \E i \in Callers : LimiterResume(i)
  \/ AdvanceLive

\* the event loop runs the callback of a timer that is due, and time goes on
SpecWindowLive ==
  /\ InitWindow
  /\ [][NextWindowLive]_vars
  /\ WF_vars(AdvanceLive)
  /\ \A i \in Callers : WF_vars(LimiterResume(i))

----------------------------------------------------------------------------
(* Properties *)

Tasks == DOMAIN task

\* the HTTP statuses of the provider's answers to task i so far
Statuses(i) == [k \in 1..Len(task[i].answers) |-> task[i].answers[k].status]

\* a 2xx answer whose body is {candidates:[{content:{parts:[{text:X}]}}]}
WellFormed(r) == r.kind = "http" /\ Ok(r) /\ r.shape = "full"

\* the time of the fetch() of attempt a of invocation n
RequestTime(n, a) ==
  LET k == CHOOSE k \in 1..Len(httpLog) :
             httpLog[k].inv = n /\ httpLog[k].attempt = a
  IN httpLog[k].t

\* admissions recorded in the window of W milliseconds that ends at time t
AdmittedInWindow(t) ==
  Cardinality({k \in 1..Len(admitLog) :
                 admitLog[k].t > t - windowMs /\ admitLog[k].t <= t})

\* C1: sliding-window limiter RateLimiter(N, W): whatever the callers do,
\* no window of W milliseconds holds more than N admissions.  (Every window
\* holding admissions is inside the window that ends at its last admission.)
C1_WindowHoldsAtMostN ==
  \A k \in 1..Len(admitLog) : AdmittedInWindow(admitLog[k].t) <= maxRequests

\* more admissions than N, one of them of a caller that was suspended, woke
\* up, found the window full again and was suspended a second time
C1_Witness ==
  /\ variant = "readme"
  /\ Len(admitLog) > maxRequests
  /\ \E k \in 1..Len(admitLog) : admitLog[k].waits >= 2

\* C2: retrying callGeminiAPI: when the provider answers 503, 503 and then
\* a well-formed 2xx, the call is still pending after each 503, and with the
\* third answer it returns the text of that answer, having made exactly 3
\* requests and waited 1000 ms before attempt 2 and 2000 ms before attempt 3.
C2_SucceedsOnThirdAttempt ==
  \A i \in Tasks :
    LET tk == task[i] IN
    /\ Statuses(i) = <<503>>
         => tk.pc \in {"backoff", "inflight"} /\ tk.delays = <<1000>>
    /\ Statuses(i) = <<503, 503>>
         => tk.pc \in {"backoff", "inflight"} /\ tk.delays = <<1000, 2000>>
    /\ (Len(tk.answers) = 3 /\ Statuses(i)[1] = 503 /\ Statuses(i)[2] = 503
          /\ WellFormed(tk.answers[3]))
         => /\ tk.pc = "done"
            /\ tk.apiOutcome.k = "return"
            /\ tk.apiOutcome.val = tk.answers[3].text
            /\ tk.nHttp = 3
            /\ tk.delays = <<1000, 2000>>
            /\ RequestTime(tk.inv, 2) - RequestTime(tk.inv, 1) >= 1000
            /\ RequestTime(tk.inv, 3) - RequestTime(tk.inv, 2) >= 2000

C2_Witness ==
  \E i \in Tasks :
    /\ variant = "retrying"
    /\ task[i].pc = "done"
    /\ Statuses(i) = <<503, 503, 200>>
    /\ WellFormed(task[i].answers[3])
    /\ task[i].apiOutcome.k = "return"

\* C3: retrying callGeminiAPI: when the provider answers 429 to every
\* attempt, the call is still pending after the first two answers, and with
\* the third it throws the error made from that third answer, having made
\* exactly 3 requests and waited 1000 + 2000 ms of backoff.
C3_ThrowsAfterThirdAttempt ==
  \A i \in Tasks :
    LET tk == task[i] IN
    /\ Statuses(i) = <<429>>
         => tk.pc \in {"backoff", "inflight"} /\ tk.delays = <<1000>>
    /\ Statuses(i) = <<429, 429>>
         => tk.pc \in {"backoff", "inflight"} /\ tk.delays = <<1000, 2000>>
    /\ Statuses(i) = <<429, 429, 429>>
         => /\ tk.pc = "done"
            /\ tk.apiOutcome.k = "throw"
            /\ tk.apiOutcome.err =
                 Err(HttpErrorMessage(variant, tk.answers[3]), 3)
            /\ tk.nHttp = 3
            /\ tk.delays = <<1000, 2000>>

C3_Witness ==
  \E i \in Tasks :
    /\ variant = "retrying"
    /\ task[i].pc = "done"
    /\ Statuses(i) = <<429, 429, 429>>
    /\ task[i].apiOutcome.k = "throw"

\* C4: retrying callGeminiAPI: a first answer with a status that is neither
\* 2xx nor 429 nor 503 ends the call at once: the error is thrown after
\* exactly 1 request and no backoff delay, whatever the body is.
C4_OtherStatusIsFatal ==
  \A i \in Tasks :
    LET tk == task[i] IN
    (/\ Len(tk.answers) >= 1
     /\ tk.answers[1].kind = "http"
     /\ ~Ok(tk.answers[1])
     /\ tk.answers[1].status \notin {429, 503})
     => /\ tk.pc = "done"
        /\ tk.apiOutcome.k = "throw"
        /\ tk.nHttp = 1
        /\ tk.delays = <<>>

\* C5: retrying gateway: every fetch() of a logical call is preceded by its
\* own return of checkRateLimit(), so a call has recorded as many admissions
\* as it has sent requests.
C5_OneAdmissionPerRequest ==
  \A i \in Tasks : task[i].nAdmit = task[i].nHttp

\* requests sent in the window of W milliseconds that ends at time t
SentInWindow(t) ==
  Cardinality({k \in 1..Len(httpLog) :
                 httpLog[k].t > t - windowMs /\ httpLog[k].t <= t})

\* C6: server with the sliding-window limiter: no window of W milliseconds
\* holds more than N HTTP requests sent to the provider, retries included.
C6_RequestsWithinCeiling ==
  \A k \in 1..Len(httpLog) : SentInWindow(httpLog[k].t) <= maxRequests

\* C7: a tools/call for a name that is not a registered tool is answered
\* with a protocol error of code MethodNotFound whose message names the
\* tool, and sends no HTTP request.
C7_UnknownToolIsMethodNotFound ==
  \A i \in Tasks :
    LET tk == task[i] IN
    (tk.pc # "idle" /\ tk.req.name \notin ToolNames)
     => /\ tk.pc = "done"
        /\ tk.response.kind = "error"
        /\ tk.response.code = "MethodNotFound"
        /\ Includes(tk.response.text.v, tk.req.name)
        /\ tk.nHttp = 0

\* a parameter declared in the input schema of the tool has a value of
\* another type than the declared one (an absent parameter has no value)
WrongType(rq) ==
  CASE rq.name = "generate_text" -> rq.args.prompt.t = "number"
    [] rq.name = "translate_text" ->
         rq.args.text.t = "number" \/ rq.args.target_language.t = "number"
    [] rq.name = "summarize_text" ->
         rq.args.text.t = "number" \/ rq.args.max_length.t = "string"
    [] OTHER -> FALSE

\* C8: a tools/call of a registered tool with a parameter of the wrong type
\* is answered with a protocol error of code InvalidParams and sends no
\* HTTP request.
C8_WrongTypeIsInvalidParams ==
  \A i \in Tasks :
    LET tk == task[i] IN
    (tk.pc # "idle" /\ WrongType(tk.req))
     => /\ tk.pc = "done"
        /\ tk.response.kind = "error"
        /\ tk.response.code = "InvalidParams"
        /\ tk.nHttp = 0

\* C9: single-interval limiter: any two admissions are at least minInterval
\* apart, under every interleaving of the callers.
C9_AdmissionsSpaced ==
  \A j, k \in 1..Len(admitLog) :
    j < k => admitLog[k].t - admitLog[j].t >= minInterval

\* C10: a 2xx answer with the body {candidates:[{content:{parts:[{text:X}]}}]}
\* makes callGeminiAPI return exactly X, for every string X, the empty
\* string included.
C10_RoundTrip ==
  \A i \in Tasks :
    LET tk == task[i] IN
    (tk.pc = "done" /\ Len(tk.answers) >= 1
     /\ WellFormed(tk.answers[Len(tk.answers)]))
     => /\ tk.apiOutcome.k = "return"
        /\ tk.apiOutcome.val = tk.answers[Len(tk.answers)].text

\* a 2xx answer whose body lacks candidates[0].content.parts[0].text
Malformed(r) == r.kind = "http" /\ Ok(r) /\ r.shape # "full"

\* C11: a 2xx answer whose body lacks candidates[0].content.parts[0].text,
\* whatever else the body holds, makes callGeminiAPI throw, and the error is
\* fatal: exactly 1 HTTP request is made and no backoff delay follows.
C11_MalformedBodyIsFatal ==
  \A i \in Tasks :
    LET tk == task[i] IN
    (Len(tk.answers) >= 1 /\ Malformed(tk.answers[1]))
     => /\ tk.pc = "done"
        /\ tk.apiOutcome.k = "throw"
        /\ tk.nHttp = 1
        /\ tk.delays = <<>>

\* C12: in every server, whatever the provider call ends with (any status,
\* malformed body, transport exception, retries exhausted), the handler
\* catches it: the invocation is answered with a result or with a protocol
\* error made from an McpError, so that nothing is left to the
\* uncaughtException/unhandledRejection handlers, which exit the process.
C12_EveryOutcomeIsAnswered ==
  \A i \in Tasks :
    LET tk == task[i] IN
    /\ tk.apiOutcome.k # "none"
         => /\ tk.pc = "done"
            /\ tk.response.kind \in {"result", "error"}
    /\ tk.pc = "done" => tk.response.kind \in {"result", "error"}
    /\ tk.response.kind = "error"
         => tk.response.code \in {"InvalidParams", "MethodNotFound",
                                  "InternalError"}
    /\ tk.response.kind = "result" => tk.response.text.t = "string"

C12_Witness ==
  \E i \in Tasks :
    /\ variant = "basic"
    /\ task[i].pc = "done"
    /\ task[i].apiOutcome.k = "throw"
    /\ task[i].answers[1].kind = "exception"
    /\ task[i].response.kind = "error"

\* the texts a failure notice of the tool begins with
NoticeHeads(name) == {Notice503(name), Notice429, FailurePrefix(name)}

C14_RequestsHaveTimeout ==
  \A i \in Tasks :
    task[i].pc = "inflight" => task[i].wakeAt > 0

\* the states of a logical call of the retrying gateway:
\*   PENDING    rl_wait (before the admission), backoff (after a retryable
\*              failure, while attempts remain)
\*   IN_FLIGHT  inflight (admitted, fetch() pending)
\*   SUCCESS, FATAL_FAILURE, EXHAUSTED   done
CallStateMachine ==
  \A i \in Tasks :
    LET tk == task[i] IN
    /\ tk.pc \in {"idle", "rl_wait", "inflight", "backoff", "done"}
    /\ tk.nHttp <= maxRetries
    /\ tk.pc = "rl_wait" => tk.nAdmit = 0 /\ tk.nHttp = 0
    /\ tk.pc = "inflight"
         => /\ tk.nAdmit >= 1
            /\ tk.attempt = tk.nHttp
            /\ Len(tk.answers) = tk.nHttp - 1
            /\ Len(tk.delays) = tk.nHttp - 1
    /\ tk.pc = "backoff"
         => /\ tk.attempt < maxRetries
            /\ tk.attempt = tk.nHttp
            /\ Len(tk.answers) = tk.nHttp
            /\ Len(tk.delays) = tk.nHttp
            /\ \/ tk.answers[tk.nHttp].status \in {429, 503}
               \/ Retryable(tk.lastError.msg)
    /\ (tk.pc = "done" /\ tk.nHttp >= 1)
         => /\ Len(tk.answers) = tk.nHttp
            /\ Len(tk.delays) = tk.nHttp - 1
            /\ tk.apiOutcome.k \in {"return", "throw"}

\* a call that has ended sends no request and sleeps no more
TerminalIsFinal ==
  \A i \in Tasks :
    (task[i].pc = "done" /\ task'[i].inv = task[i].inv)
      => /\ task'[i] = task[i]
         /\ \A k \in 1..Len(httpLog') :
              httpLog'[k].inv = task[i].inv => k <= Len(httpLog)

\* C15: every logical call of the retrying gateway follows the state machine
\* PENDING -> ADMITTED -> IN_FLIGHT -> {SUCCESS | RETRYABLE_FAILURE |
\* FATAL_FAILURE | EXHAUSTED}: a retryable failure leads to another attempt
\* only while fewer than K attempts have been made, at most K requests are
\* sent, and after the call has ended it sends no request and waits no delay.
C15_CallStateMachine == []CallStateMachine /\ [][TerminalIsFinal]_vars

C15_Witness ==
  \E i \in Tasks :
    /\ variant = "retrying"
    /\ task[i].pc = "done"
    /\ task[i].nHttp = maxRetries
    /\ task[i].apiOutcome.k = "throw"
    /\ task[i].answers[1].status = 503
    /\ task[i].answers[3].kind = "exception"
    /\ Retryable(task[i].answers[3].body)

\* C16: when the host cancels an invocation whose retry loop is pending (in
\* flight or in a backoff delay), the loop schedules no further attempt: no
\* HTTP request of that invocation is sent after the cancellation.
C16_NoRequestAfterCancel ==
  \A k \in 1..Len(httpLog) : ~httpLog[k].cancelled

\* task j is admitted by the step: its checkRateLimit() returns
AdmittedByStep(j) ==
  /\ task'[j].nAdmit = task[j].nAdmit + 1
  /\ Len(admitLog') = Len(admitLog) + 1

\* the time at which task j, admitted by the step, called checkRateLimit()
CalledAt(j) == IF task[j].pc = "rl_wait" THEN task[j].called ELSE now

\* no caller is admitted while a caller that called earlier stays suspended
InArrivalOrder ==
  \A i, j \in Tasks :
    (/\ AdmittedByStep(j)
     /\ task[i].pc = "rl_wait"
     /\ task'[i].pc = "rl_wait")
      => CalledAt(j) <= task[i].called

\* C17: sliding-window limiter: suspended callers are admitted in the order
\* of their calls: no caller is admitted while a caller that called
\* checkRateLimit() earlier is still suspended.
C17_AdmittedInArrivalOrder == [][InArrivalOrder]_vars

\* the timestamps the limiter holds that are inside the window
InWindow == {requests[k] : k \in {n \in 1..Len(requests) :
                                    now - requests[n] < windowMs}}

\* a caller that is suspended sleeps for W - (now - oldest timestamp)
WaitsForOldest ==
  \A i \in Tasks :
    (task[i].pc # "rl_wait" /\ task'[i].pc = "rl_wait")
      => /\ InWindow # {}
         /\ task'[i].wakeAt - now = windowMs - (now - Min(InWindow))

\* a caller that was suspended once and is alone (no other caller is
\* suspended and nobody was admitted after its call) is admitted when its
\* timer fires
LoneCallerWaitsOnce ==
  \A i \in Tasks :
    (/\ task[i].pc = "rl_wait"
     /\ task[i].suspended = 1
     /\ task'[i] # task[i]
     /\ \A j \in Tasks \ {i} : task[j].pc = "idle"
     /\ \A k \in 1..Len(requests) : requests[k] <= task[i].called)
      => /\ task'[i].pc = "idle"
         /\ AdmittedByStep(i)
         /\ now >= task[i].wakeAt

\* C18: sliding-window limiter with N >= 1: every call of checkRateLimit()
\* returns in the end, for a finite set of concurrent callers, when time
\* advances and timers fire; a lone caller that finds the window full is
\* admitted after one wait of W - (now - oldest recorded timestamp).
C18_EveryCallReturns ==
  /\ \A i \in Callers : (task[i].pc = "rl_wait") ~> (task[i].pc = "idle")
  /\ [][WaitsForOldest /\ LoneCallerWaitsOnce]_vars

C18_Witness ==
  /\ variant = "readme"
  /\ maxRequests >= 1
  /\ \A i \in Tasks : task[i].pc = "idle"
  /\ Len(admitLog) > maxRequests
  /\ \E k \in 1..Len(admitLog) : admitLog[k].waits = 1
  /\ \E k \in 1..Len(admitLog) : admitLog[k].waits >= 2

\* C19: a rate limiter configured with N = 0 is rejected when it is
\* constructed, so that no call of checkRateLimit() is ever made against a
\* limiter with N = 0: no caller is left suspended in it.
C19_ZeroIsRejected ==
  maxRequests = 0
    => \A i \in Tasks : task[i].pc = "idle" /\ task[i].suspended = 0

\* the provider's answer r is a failure of one of the two retryable paths:
\* HTTP 429 or 503, or a transport exception naming ECONNRESET or ETIMEDOUT
RetryableAnswer(r) ==
  \/ r.kind = "http" /\ r.status \in {429, 503}
  \/ r.kind = "exception"
       /\ (Includes(r.body, "ECONNRESET") \/ Includes(r.body, "ETIMEDOUT"))

\* C20: backoff schedule of the retrying gateway, for every K >= 1 and both
\* failure paths: exactly one delay is waited between two consecutive
\* attempts, the delay before attempt i (2 <= i <= K) is 2^(i-2) * 1000 ms
\* exactly, and no delay is waited after the K-th failed attempt.
C20_BackoffSchedule ==
  \A i \in Tasks :
    LET tk == task[i]
        d == tk.delays
    IN
    /\ \A n \in 2..(Len(d) + 1) : d[n - 1] = Pow2(n - 2) * 1000
    /\ Len(d) <= maxRetries - 1
    /\ tk.pc = "inflight" => Len(d) = tk.attempt - 1
    /\ tk.pc = "backoff"
         => /\ Len(d) = tk.attempt
            /\ tk.wakeAt >= RequestTime(tk.inv, tk.attempt) + d[tk.attempt]
    /\ \A n \in 2..tk.nHttp :
         RequestTime(tk.inv, n) - RequestTime(tk.inv, n - 1) >= d[n - 1]
    /\ \A n \in 1..Len(tk.answers) :
         (RetryableAnswer(tk.answers[n]) /\ n < maxRetries) => Len(d) >= n
    /\ (tk.pc = "done" /\ tk.nHttp >= 1) => Len(d) = tk.nHttp - 1

C20_Witness ==
  \E i \in Tasks :
    /\ maxRetries = 4
    /\ task[i].pc = "done"
    /\ task[i].apiOutcome.k = "throw"
    /\ task[i].nHttp = 4
    /\ task[i].delays = <<1000, 2000, 4000>>
    /\ task[i].answers[1].kind = "exception"
    /\ task[i].answers[2].status = 429
    /\ task[i].answers[4].status = 503

\* fetch() rejected because of a timeout or a connection reset
TimeoutOrReset(r) ==
  r.kind = "exception"
    /\ (Includes(r.body, "ETIMEDOUT") \/ Includes(r.body, "ECONNRESET"))

\* C21: retrying gateway: a transport failure that is a timeout or a
\* connection reset is retried with backoff while attempts remain and raised
\* after the K-th attempt; any other transport failure is fatal: it is
\* raised after exactly 1 request, without a backoff delay.
C21_TransportFailures ==
  \A i \in Tasks :
    LET tk == task[i]
        n == Len(tk.answers)
    IN
    /\ (n >= 1 /\ TimeoutOrReset(tk.answers[n]) /\ n < maxRetries)
         => tk.pc \in {"backoff", "inflight"} /\ Len(tk.delays) = n
    /\ (n >= 1 /\ TimeoutOrReset(tk.answers[n]) /\ n = maxRetries)
         => /\ tk.pc = "done"
            /\ tk.apiOutcome.k = "throw"
            /\ tk.apiOutcome.err = Err(tk.answers[n].body, n)
    /\ (n >= 1 /\ tk.answers[1].kind = "exception"
          /\ ~TimeoutOrReset(tk.answers[1]))
         => /\ tk.pc = "done"
            /\ tk.apiOutcome.k = "throw"
            /\ tk.nHttp = 1
            /\ tk.delays = <<>>

\* the names of the tools of a tools/list answer, in order
ListedNames == [k \in 1..Len(listed.tools) |-> listed.tools[k].name]

SucceededWithText(i) ==
  LET tk == task[i] IN
  /\ tk.pc = "done"
  /\ tk.req.name \in ToolNames
  /\ ~WrongType(tk.req)
  /\ Len(tk.answers) >= 1
  /\ WellFormed(tk.answers[Len(tk.answers)])

\* C23: in every server, for each of the three tools called with well-typed
\* arguments, when the provider call succeeds with any text, the empty
\* string included, the response is a result with one text block whose text
\* is a non-empty string.
C23_ResultTextNonEmpty ==
  \A i \in Tasks :
    SucceededWithText(i)
      => /\ task[i].response.kind = "result"
         /\ task[i].response.text.t = "string"
         /\ task[i].response.text.v # <<>>

C23_Witness ==
  \E i \in Tasks :
    /\ variant = "simple"
    /\ SucceededWithText(i)
    /\ task[i].answers[1].text = Str(<<>>)
    /\ task[i].response.kind = "result"

\* C24: when the provider call of a tool invocation succeeds with text X,
\* the text of the tool's result equals X exactly, with nothing added,
\* removed or substituted.
C24_ResultTextIsProviderText ==
  \A i \in Tasks :
    SucceededWithText(i)
      => task[i].response
           = Result(task[i].answers[Len(task[i].answers)].text)

\* the text part the claim prescribes for prompt p and preamble s
JoinedText(p, s) ==
  IF s.t = "string" /\ s.v # <<>>
  THEN Str(s.v \o <<"\n\n">> \o p.v)
  ELSE p

\* C25: for every prompt p and system preamble s, the single text part sent
\* to the provider is s, a blank line (two newlines) and p when s is
\* non-empty, and exactly p when s is empty or omitted; the body holds
\* exactly one content block with one part.
C25_RequestBody ==
  \A i \in Tasks :
    task[i].nHttp >= 1
      => /\ Len(task[i].body.contents) = 1
         /\ Len(task[i].body.contents[1].parts) = 1
         /\ task[i].body.contents[1].parts[1].text
              = JoinedText(task[i].prompt, task[i].systemInstruction)

C25_Witness ==
  \E i \in Tasks :
    /\ task[i].nHttp = 2
    /\ task[i].systemInstruction = Str(<<"s">>)
    /\ task[i].body.contents[1].parts[1].text = Str(<<"s", "\n\n", "p">>)

\* the stored timestamps are in non-decreasing order
RequestsSorted ==
  \A k \in 1..Len(requests) - 1 : requests[k] <= requests[k + 1]

\* a step of checkRateLimit(): a caller is admitted or suspended
CheckStep == now' = now /\ task' # task

\* after a step of checkRateLimit() no stored timestamp is as old as the
\* window, and after a step that records one there are at most N of them
PrunedAndBounded ==
  CheckStep
    => /\ \A k \in 1..Len(requests') : now - requests'[k] < windowMs
       /\ admitLog' # admitLog
            => /\ Len(requests') <= maxRequests
               /\ Len(requests') >= 1
               /\ requests'[Len(requests')] = now

\* C26: the timestamp sequence `requests` of the sliding-window limiter is
\* always in non-decreasing order; immediately after every checkRateLimit()
\* step that records a timestamp it holds at most N entries, all younger
\* than W at the moment of recording; entries of age >= W are pruned before
\* each admission check.
C26_WindowState == []RequestsSorted /\ [][PrunedAndBounded]_vars

C26_Witness ==
  /\ Len(admitLog) >= 3
  /\ Len(requests) = maxRequests
  /\ requests[Len(requests)] = admitLog[Len(admitLog)].t
  /\ requests[1] > admitLog[1].t

\* the attempt counter, the last error and the outcome of task i as its own
\* answers determine them
OwnBudget(i) ==
  LET tk == task[i]
      n == Len(tk.answers)
  IN
  /\ n <= maxRetries
  /\ \A k \in 1..(n - 1) : RetryableAnswer(tk.answers[k])
  /\ tk.pc = "inflight" => tk.attempt = n + 1
  /\ tk.pc = "backoff"
       => /\ tk.attempt = n
          /\ n < maxRetries
          /\ RetryableAnswer(tk.answers[n])
  /\ (tk.pc \in {"inflight", "backoff"} /\ n >= 1) => tk.lastError.at = n
  /\ (tk.pc = "done" /\ n >= 1)
       => /\ tk.nHttp = n
          /\ RetryableAnswer(tk.answers[n])
               => n = maxRetries /\ tk.apiOutcome.k = "throw"
          /\ WellFormedText(tk.answers[n]) => tk.apiOutcome.k = "return"
          /\ tk.apiOutcome.k = "throw"
               => tk.apiOutcome.err = tk.lastError /\ tk.lastError.at = n

\* two finished invocations that got the same answers ended the same way
SameAnswersSameOutcome ==
  \A i, j \in Tasks :
    (task[i].pc = "done" /\ task[j].pc = "done"
       /\ task[i].req = task[j].req /\ task[i].answers = task[j].answers)
      => /\ task[i].apiOutcome = task[j].apiOutcome
         /\ task[i].nHttp = task[j].nHttp
         /\ task[i].response = task[j].response

\* a step of one invocation leaves the locals of the others as they are
OthersUntouched ==
  \A i, j \in Tasks :
    (i # j /\ task'[i] # task[i]) => task'[j] = task[j]

\* C27: concurrent tool invocations have independent attempt budgets: the
\* attempt counter and the last error of one call are never read or changed
\* by another, so the number of attempts and the outcome of an invocation
\* depend only on the provider's responses to its own requests.
C27_IndependentBudgets ==
  /\ [](\A i \in Tasks : OwnBudget(i))
  /\ []SameAnswersSameOutcome
  /\ [][OthersUntouched]_vars

C27_Witness ==
  /\ task[1].pc = "done" /\ task[2].pc = "done"
  /\ task[1].inv = 1 /\ task[2].inv = 2
  /\ task[1].nHttp = 3 /\ task[1].apiOutcome.k = "throw"
  /\ task[2].nHttp = 2 /\ task[2].apiOutcome.k = "return"
  /\ \E k \in 1..(Len(httpLog) - 2) :
       /\ httpLog[k].inv = 1
       /\ httpLog[k + 1].inv = 2
       /\ httpLog[k + 2].inv = 1

\* a parameter the input schema of the tool requires has no value
MissingArgument(rq) ==
  CASE rq.name = "generate_text" -> rq.args.prompt.t = "undefined"
    [] rq.name = "translate_text" ->
         rq.args.text.t = "undefined"
           \/ rq.args.target_language.t = "undefined"
    [] rq.name = "summarize_text" -> rq.args.text.t = "undefined"
    [] OTHER -> FALSE

\* this step is the arrival of a tools/call with an unknown tool name or
\* with wrong-typed or missing arguments
InvalidCallStep ==
  /\ invoked' = invoked + 1
  /\ \E i \in Tasks :
       /\ task'[i].inv = invoked'
       /\ \/ task'[i].req.name \notin ToolNames
          \/ WrongType(task'[i].req)
          \/ MissingArgument(task'[i].req)

\* this step is the answer to a tools/list request
ListStep == listed' # listed

\* the step records no timestamp and suspends no caller in the limiter
LimiterUntouched ==
  /\ lastCallTime' = lastCallTime
  /\ requests' = requests
  /\ admitLog' = admitLog
  /\ \A i \in Tasks : task'[i].pc = "rl_wait" => task[i].pc = "rl_wait"

\* C28: a tools/call with an unknown tool name or with wrong-typed or
\* missing arguments, and a tools/list request, leave the rate limiter
\* state unchanged: no timestamp is recorded, lastCallTime is not updated
\* and the caller is never suspended in the limiter.
C28_InvalidCallsSkipLimiter ==
  [][(InvalidCallStep \/ ListStep) => LimiterUntouched]_vars

\* C29: retrying server: when a tool's provider call finally fails, the
\* returned text is the 'service temporarily unavailable' notice if and
\* only if the final failure was HTTP 503, the 'API rate limit exceeded'
\* notice if and only if it was HTTP 429, and otherwise the generic failure
\* text containing the error message.
C29_NoticeFollowsFinalStatus ==
  \A i \in Tasks :
    LET tk == task[i]
        r == tk.answers[Len(tk.answers)]
        text == tk.response.text.v
    IN
    (tk.pc = "done" /\ tk.apiOutcome.k = "throw" /\ Len(tk.answers) >= 1)
      => /\ tk.response.kind = "result"
         /\ text = <<Notice503(tk.req.name)>>
              <=> (r.kind = "http" /\ r.status = 503)
         /\ text = <<Notice429>> <=> (r.kind = "http" /\ r.status = 429)
         /\ ~(r.kind = "http" /\ r.status \in {429, 503})
              => text = <<FailurePrefix(tk.req.name)>> \o tk.apiOutcome.err.msg

\* C30: if GEMINI_API_KEY is unset or empty, the server process exits with
\* code 1 before the transport is connected: it never reaches the started
\* state, never handles a tools/list or tools/call request and never sends
\* an HTTP request.
C30_NoKeyNoServer ==
  ~Truthy(process.key)
    => /\ process.state \in {"loading", "exited"}
       /\ process.state = "exited" => process.code = 1
       /\ invoked = 0
       /\ listed = NoList
       /\ httpLog = <<>>
       /\ admitLog = <<>>
       /\ \A i \in Tasks : task[i] = Fresh

C30_Witness == process = Exited(Str(<<>>), 1)

====
